---- MODULE Spec2Model ----
(***************************************************************************)
(* Model of clang-tidy/misc/QualifiersOrder.cpp: the check that moves the  *)
(* `const` qualifier of the innermost type of a declaration to the left or *)
(* to the right of the type.                                               *)
(*                                                                         *)
(* A source buffer is a sequence of one-character strings.  A source       *)
(* location is a 0-based byte offset into the buffer; the buffer is        *)
(* followed by its NUL terminator at offset Len(b).  The lexer services    *)
(* the check calls (Lexer::MeasureTokenLength, GetBeginningOfToken, ...)   *)
(* are modelled by the raw lexer's behaviour on the characters used here.  *)
(***************************************************************************)
EXTENDS Integers, Sequences, FiniteSets, TLC

(***************************************************************************)
(* Characters and fixed spellings                                          *)
(***************************************************************************)
NUL == "NUL"

\* The default-constructed (invalid) SourceLocation, raw encoding 0.  The
\* buffer's first byte has raw encoding 2, so as an offset the invalid location
\* is -2: it compares below every valid location, and one past it
\* (getLocWithOffset(1)) is the location one byte before the buffer.
InvalidLoc == -2

InvalidRange == [b |-> InvalidLoc, e |-> InvalidLoc]

KwConst == <<"c", "o", "n", "s", "t">>
KwTypedef == <<"t", "y", "p", "e", "d", "e", "f">>
TxtInt == <<"i", "n", "t">>
TxtChar == <<"c", "h", "a", "r">>
TxtComma == <<",">>
TxtSpace == <<" ">>
\* A block comment.
TxtCmtA == <<"/", "*", "a", "*", "/">>
TxtCmtB == <<"/", "*", "b", "*", "/">>

PunctChars == {" ", "*", "&", ",", "<", ">", ";", "/", "(", ")", NUL}

isWhitespace(c) == c = " "

IsIdentChar(c) == c \notin PunctChars

\* *FullSourceLoc(Loc, SM).getCharacterData(): the byte at an offset of the
\* buffer; the buffer's terminator at offset Len(b).
CharAt(b, i) == IF i >= 0 /\ i < Len(b) THEN b[i + 1] ELSE NUL

\* StringRef(Begin, End - Begin)
getAsString(b, Begin, End) ==
  IF Begin >= 0 /\ End >= Begin /\ End <= Len(b) THEN SubSeq(b, Begin + 1, End) ELSE <<>>

(***************************************************************************)
(* Raw lexer                                                               *)
(***************************************************************************)
RECURSIVE IdentEnd(_, _)
IdentEnd(b, i) == IF IsIdentChar(CharAt(b, i)) THEN IdentEnd(b, i + 1) ELSE i

\* The offset just past the "*/" closing a block comment whose body starts at
\* i, or InvalidLoc when the comment is not terminated.
RECURSIVE BlockCommentEnd(_, _)
BlockCommentEnd(b, i) ==
  IF i + 1 >= Len(b) THEN InvalidLoc
  ELSE IF CharAt(b, i) = "*" /\ CharAt(b, i + 1) = "/" THEN i + 2
  ELSE BlockCommentEnd(b, i + 1)

\* The length of a block comment starting at Loc and ending at End; an
\* unterminated comment is skipped and the end-of-file token (length 0) lexed.
BlockCommentLength(Loc, End) == IF End = InvalidLoc THEN 0 ELSE End - Loc

\* The raw token lexed at Loc, whose first characters are c and d.
RawTokenLength(b, Loc, c, d) ==
  IF Loc < 0 \/ Loc >= Len(b) THEN 0
  ELSE IF isWhitespace(c) THEN 0
  ELSE IF IsIdentChar(c) THEN IdentEnd(b, Loc) - Loc
  ELSE IF c = "/" /\ d = "*" THEN BlockCommentLength(Loc, BlockCommentEnd(b, Loc + 2))
  ELSE IF c = "/" /\ d = "/" THEN Len(b) - Loc
  ELSE IF (c = "&" /\ d = "&") \/ (c = ">" /\ d = ">") \/ (c = "<" /\ d = "<") THEN 2
  ELSE 1

\* Lexer::MeasureTokenLength: the length of the raw token lexed at Loc, with
\* comments retained as tokens; 0 when Loc points at whitespace (getRawToken
\* fails) or at the end of the buffer.
MeasureTokenLength(b, Loc) == RawTokenLength(b, Loc, CharAt(b, Loc), CharAt(b, Loc + 1))

IsCommentAt(b, Loc) ==
  /\ CharAt(b, Loc) = "/"
  /\ CharAt(b, Loc + 1) \in {"*", "/"}
  /\ MeasureTokenLength(b, Loc) > 0

\* Lexer::getLocForEndOfToken(Loc, 0, ...)
getLocForEndOfToken(b, Loc) == Loc + MeasureTokenLength(b, Loc)

\* while (isWhitespace(*Loc)) Loc = Loc.getLocWithOffset(1);
RECURSIVE SkipWhitespaceForward(_, _)
SkipWhitespaceForward(b, Loc) ==
  IF isWhitespace(CharAt(b, Loc)) THEN SkipWhitespaceForward(b, Loc + 1) ELSE Loc

\* Lexer::GetBeginningOfToken: relex the line from its start until the token
\* that runs past Loc; its start when it holds Loc, otherwise Loc itself.
\* LexUntilAt: the lexer's next token starts at s and is n long.
RECURSIVE LexUntil(_, _, _)
RECURSIVE LexUntilAt(_, _, _, _)
LexUntilAt(b, s, n, Loc) ==
  IF n = 0 THEN Loc
  ELSE IF s + n > Loc THEN (IF s <= Loc THEN s ELSE Loc)
  ELSE LexUntil(b, s + n, Loc)

LexUntil(b, p, Loc) ==
  LexUntilAt(b, SkipWhitespaceForward(b, p),
             MeasureTokenLength(b, SkipWhitespaceForward(b, p)), Loc)

GetBeginningOfToken(b, Loc) ==
  IF Loc < 0 \/ Loc >= Len(b) THEN Loc ELSE LexUntil(b, 0, Loc)

\* The kind of the raw token at Beginning: only comment / other is used.
\* "NUM_TOKENS" stands for the failure of Lexer::getRawToken, at whitespace
\* and at a location outside the buffer (the terminator at Len(b) is inside
\* and lexes as the end-of-file token): assert(!Invalid) fails there, and
\* without assertions tok::NUM_TOKENS is returned.
RawTokenKind(b, Beginning) ==
  IF Beginning < 0 \/ Beginning > Len(b) THEN "NUM_TOKENS"
  ELSE IF isWhitespace(CharAt(b, Beginning)) THEN "NUM_TOKENS"
  ELSE IF IsCommentAt(b, Beginning) THEN "comment"
  ELSE "other"

getTokenKind(b, Loc) == RawTokenKind(b, GetBeginningOfToken(b, Loc))

\* forwardSkipWhitespaceAndComments; SkipCommentAt is the part of its loop
\* after the whitespace, at a token of kind TokKind.  The result is the
\* location returned (loc) and the line of the assertion that fails on the
\* way in a build with assertions (failed; 0: none): the one of getTokenKind,
\* when the whitespace loop ends outside the buffer.
RECURSIVE forwardSkipWhitespaceAndComments(_, _)
RECURSIVE SkipCommentAt(_, _, _)
SkipCommentAt(b, Loc, TokKind) ==
  IF TokKind = "NUM_TOKENS" THEN [loc |-> Loc, failed |-> 54]
  ELSE IF TokKind # "comment" THEN [loc |-> Loc, failed |-> 0]
  ELSE forwardSkipWhitespaceAndComments(b, getLocForEndOfToken(b, Loc))

forwardSkipWhitespaceAndComments(b, Loc) ==
  SkipCommentAt(b, SkipWhitespaceForward(b, Loc),
                getTokenKind(b, SkipWhitespaceForward(b, Loc)))

(***************************************************************************)
(* Front end: the declaration and its type locations, as the parser hands  *)
(* them to the check.  Comments are dropped; `C` is an identifier that the *)
(* preprocessor expands to `const`, `M` one that it expands to `,` (their  *)
(* definitions are not part of the buffer).                                *)
(***************************************************************************)
TokenKindOf(t) ==
  IF t = KwConst THEN "const"
  ELSE IF t = <<"C">> THEN "constmacro"
  ELSE IF t = <<"M">> THEN "commamacro"
  ELSE IF t = KwTypedef THEN "typedef"
  ELSE IF t = TxtInt \/ t = TxtChar THEN "type"
  ELSE IF t = <<"v">> THEN "tmpl"
  ELSE IF t = <<"3">> THEN "num"
  ELSE IF IsIdentChar(t[1]) THEN "id"
  ELSE IF t = <<"&", "&">> THEN "&&"
  ELSE IF Len(t) = 1 THEN t[1]
  ELSE "other"

\* The tokens of the buffer from offset p on, comments dropped.  TokensAt: the
\* next token starts at s and is n long.
RECURSIVE Tokens(_, _)
RECURSIVE TokensAt(_, _, _)
TokensAt(b, s, n) ==
  IF n = 0 THEN <<>>
  ELSE IF IsCommentAt(b, s) THEN Tokens(b, s + n)
  ELSE <<[k |-> TokenKindOf(getAsString(b, s, s + n)), s |-> s, e |-> s + n]>>
         \o Tokens(b, s + n)

Tokens(b, p) ==
  TokensAt(b, SkipWhitespaceForward(b, p), MeasureTokenLength(b, SkipWhitespaceForward(b, p)))

\* Whether the raw lexer reaches the end of the buffer (no unterminated comment).
RECURSIVE LexesToEnd(_, _)
RECURSIVE LexesToEndAt(_, _, _)
LexesToEndAt(b, s, n) ==
  IF s >= Len(b) THEN TRUE
  ELSE IF n = 0 THEN FALSE
  ELSE LexesToEnd(b, s + n)

LexesToEnd(b, p) ==
  LexesToEndAt(b, SkipWhitespaceForward(b, p),
               MeasureTokenLength(b, SkipWhitespaceForward(b, p)))

KindAt(ts, i) == IF i >= 1 /\ i <= Len(ts) THEN ts[i].k ELSE "eof"

QualKinds == {"const", "constmacro"}
SigilKinds == {"*", "&", "&&"}

RECURSIVE RunEnd(_, _, _)
RunEnd(ts, i, kinds) == IF KindAt(ts, i) \in kinds THEN RunEnd(ts, i + 1, kinds) ELSE i

HasKind(ts, i, j, kinds) == \E n \in i..(j - 1) : KindAt(ts, n) \in kinds

\* The index after the declarator's pointer/reference operators, each followed
\* by the qualifiers of its own level.
RECURSIVE SigilRunEnd(_, _)
SigilRunEnd(ts, i) ==
  IF KindAt(ts, i) \in SigilKinds THEN SigilRunEnd(ts, RunEnd(ts, i + 1, {"const"})) ELSE i

\* The sigil locations in the order the TypeLoc chain is walked: the outermost
\* level (the rightmost sigil) first.
RECURSIVE SigilLevels(_, _, _)
SigilLevels(ts, i, j) ==
  IF i >= j THEN <<>>
  ELSE SigilLevels(ts, i + 1, j) \o (IF KindAt(ts, i) \in SigilKinds THEN <<ts[i].s>> ELSE <<>>)

NoTypeLoc ==
  [ok |-> FALSE, next |-> 0, levels |-> <<>>, begin |-> InvalidLoc, hasConst |-> FALSE,
   isTS |-> FALSE, LAngleLoc |-> InvalidLoc, RAngleLoc |-> InvalidLoc, args |-> <<>>]

\* The type location of a type whose name is token t (a template
\* specialization with the arguments ta when isTS), with its qualifiers from
\* token i on and, after token `after`, its qualifiers and indirections.
TypeLocAt(ts, i, t, after, isTS, ta) ==
  LET q == RunEnd(ts, after, QualKinds)
      n == SigilRunEnd(ts, q)
  IN [ok |-> TRUE, next |-> n, levels |-> SigilLevels(ts, q, n), begin |-> ts[t].s,
      hasConst |-> HasKind(ts, i, t, QualKinds) \/ HasKind(ts, after, q, QualKinds),
      isTS |-> isTS,
      LAngleLoc |-> IF isTS THEN ts[t + 1].s ELSE InvalidLoc,
      RAngleLoc |-> IF isTS THEN ta.RAngleLoc ELSE InvalidLoc,
      args |-> IF isTS THEN ta.args ELSE <<>>]

NoArgs == [ok |-> FALSE, next |-> 0, args |-> <<>>, RAngleLoc |-> InvalidLoc]

\* A template argument made of one type name with qualifiers and indirections.
SimpleTypeLoc(ts, i, t) ==
  IF KindAt(ts, t) # "type" THEN NoTypeLoc ELSE TypeLocAt(ts, i, t, t + 1, FALSE, NoArgs)

\* The arguments of a template specialization, from token i to the closing
\* '>'.  ArgsWith: the argument at token i is arg and ends before token j.
RECURSIVE TemplateArgs(_, _)
RECURSIVE ArgsWith(_, _, _, _)
ArgsFirst(arg, rest) ==
  IF rest.ok THEN [rest EXCEPT !.args = <<arg>> \o @] ELSE NoArgs

ArgsWith(ts, ok, arg, j) ==
  IF ~ok THEN NoArgs
  ELSE IF KindAt(ts, j) = ">"
    THEN [ok |-> TRUE, next |-> j + 1, args |-> <<arg>>, RAngleLoc |-> ts[j].s]
  ELSE IF KindAt(ts, j) \in {",", "commamacro"} THEN ArgsFirst(arg, TemplateArgs(ts, j + 1))
  ELSE NoArgs

TypeArg(tl) == [isType |-> TRUE, begin |-> tl.begin, TL |-> tl]

TypeArgs(ts, tl) == ArgsWith(ts, tl.ok, TypeArg(tl), tl.next)

TemplateArgs(ts, i) ==
  IF KindAt(ts, i) = "num"
    THEN ArgsWith(ts, TRUE, [isType |-> FALSE, begin |-> ts[i].s, TL |-> NoTypeLoc], i + 1)
  ELSE TypeArgs(ts, SimpleTypeLoc(ts, i, RunEnd(ts, i, QualKinds)))

\* The declared type: a type name or a template specialization `v<...>`.
SpecializationLoc(ts, t, ta) ==
  IF ~ta.ok THEN NoTypeLoc ELSE TypeLocAt(ts, 1, t, ta.next, TRUE, ta)

DeclTypeLocAt(ts, t) ==
  IF KindAt(ts, t) = "tmpl" /\ KindAt(ts, t + 1) = "<"
    THEN SpecializationLoc(ts, t, TemplateArgs(ts, t + 2))
  ELSE IF KindAt(ts, t) = "type" THEN TypeLocAt(ts, 1, t, t + 1, FALSE, NoArgs)
  ELSE NoTypeLoc

DeclTypeLoc(ts) == DeclTypeLocAt(ts, RunEnd(ts, 1, QualKinds \cup {"typedef"}))

NoDecl == [ok |-> FALSE, kind |-> "none", LocStart |-> InvalidLoc, NameLoc |-> InvalidLoc,
           TL |-> NoTypeLoc]

\* The declaration made of the tokens ts with the declared type tl: a
\* variable, a function or a typedef.
DeclWith(ts, tl, clean) ==
  LET n == tl.next
      isTd == HasKind(ts, 1, RunEnd(ts, 1, QualKinds \cup {"typedef"}), {"typedef"})
      isFun == KindAt(ts, n + 1) = "(" /\ KindAt(ts, n + 2) = ")"
      last == IF isFun THEN n + 3 ELSE n + 1
  IN IF Len(ts) = 0 THEN NoDecl
     ELSE IF ~tl.ok \/ KindAt(ts, n) # "id" \/ KindAt(ts, last) # ";" \/ Len(ts) # last
            \/ (isTd /\ isFun) \/ ~clean
       THEN NoDecl
     ELSE [ok |-> TRUE,
           kind |-> IF isTd THEN "typedef" ELSE IF isFun THEN "function" ELSE "var",
           LocStart |-> ts[1].s, NameLoc |-> ts[n].s, TL |-> tl]

DeclOf(b, ts) == DeclWith(ts, DeclTypeLoc(ts), LexesToEnd(b, 0))

ParseDecl(b) == DeclOf(b, Tokens(b, 0))

(***************************************************************************)
(* Token search                                                            *)
(***************************************************************************)
\* TokenText == Text || (TokenText.back() == '>' && TokenText.substr(...) == Text)
TokenMatches(TokenText, Text) ==
  \/ TokenText = Text
  \/ /\ Len(TokenText) > 0
     /\ TokenText[Len(TokenText)] = ">"
     /\ SubSeq(TokenText, 1, Len(TokenText) - 1) = Text

\* What findToken gives: the range [b, e) of the token found or the invalid
\* range, or no range at all (stuck: the loop never ends), and the line of
\* the first assertion that fails on the way in a build with assertions
\* (failed; 0: none), which aborts there.
NotFound == [b |-> InvalidLoc, e |-> InvalidLoc, stuck |-> FALSE, failed |-> 0]

\* A token of length 0 before the end of the range: the loop does not advance.
NoReturn == [b |-> InvalidLoc, e |-> InvalidLoc, stuck |-> TRUE, failed |-> 107]

\* A token of length 0 at or after the end of the range: the loop ends.
NotFoundAtEmpty == [b |-> InvalidLoc, e |-> InvalidLoc, stuck |-> FALSE, failed |-> 107]

\* assert(SR.isValid()) on the result r of the loop.
AssertValid(SR, r) ==
  IF SR.b = InvalidLoc \/ SR.e = InvalidLoc THEN [r EXCEPT !.failed = 96] ELSE r

\* findToken: the first token of [SR.b, SR.e) spelled Text (or Text followed
\* by '>').  The whitespace skip is not bounded by SR.e.  findTokenAt is the
\* loop body at the token [Loc, EndLoc).  At a token of length 0 (the end of
\* the buffer, an unterminated comment, a location outside the buffer)
\* TokenText is empty and differs from Text, which never is:
\* TokenText.back() fails its assertion; without assertions nothing matches
\* and Loc stays, so the loop ends when Loc is not before SR.e and never
\* otherwise.
RECURSIVE findTokenFrom(_, _, _, _)
RECURSIVE findTokenAt(_, _, _, _, _)
findTokenAt(b, Loc, EndLoc, End, Text) ==
  IF EndLoc = Loc THEN (IF Loc < End THEN NoReturn ELSE NotFoundAtEmpty)
  ELSE IF TokenMatches(getAsString(b, Loc, EndLoc), Text)
    THEN [b |-> Loc, e |-> EndLoc, stuck |-> FALSE, failed |-> 0]
  ELSE findTokenFrom(b, EndLoc, End, Text)

findTokenFrom(b, Loc0, End, Text) ==
  IF ~(Loc0 < End) THEN NotFound
  ELSE findTokenAt(b, SkipWhitespaceForward(b, Loc0),
                   getLocForEndOfToken(b, SkipWhitespaceForward(b, Loc0)), End, Text)

findToken(b, SR, Text) == AssertValid(SR, findTokenFrom(b, SR.b, SR.e, Text))

\* while (isWhitespace(*Loc)) Loc = Loc.getLocWithOffset(-1);
RECURSIVE SkipWhitespaceBackward(_, _)
SkipWhitespaceBackward(b, Loc) ==
  IF isWhitespace(CharAt(b, Loc)) THEN SkipWhitespaceBackward(b, Loc - 1) ELSE Loc

\* The result of a backward search that went through the location before the
\* first byte of the buffer and reached the invalid location without a match:
\* assert(Loc.isValid()) fails there; without assertions the loop breaks and
\* the invalid range is returned.
OffStart == [b |-> InvalidLoc, e |-> InvalidLoc, off |-> TRUE]

\* The loop of findTokenBackwards: from Loc0 towards the start of the buffer,
\* token by token.  Nothing stops the walk at offset 0: the next location is
\* offset -1, which is read like any other, and the one after it is the
\* invalid location.  findTokenBackwardsAt is the loop body at the token that
\* starts at Loc.  off tells that an assertion of findTokenBackwards fails.
RECURSIVE findTokenBackwardsFrom(_, _, _)
RECURSIVE findTokenBackwardsAt(_, _, _)
findTokenBackwardsAt(b, Loc, Text) ==
  IF getAsString(b, Loc, getLocForEndOfToken(b, Loc)) = Text
    THEN [b |-> Loc, e |-> getLocForEndOfToken(b, Loc), off |-> FALSE]
  ELSE findTokenBackwardsFrom(b, Loc - 1, Text)

findTokenBackwardsFrom(b, Loc0, Text) ==
  IF Loc0 = InvalidLoc THEN OffStart
  ELSE findTokenBackwardsAt(b, GetBeginningOfToken(b, SkipWhitespaceBackward(b, Loc0)), Text)

\* The search entered at the invalid location: assert(Loc.isValid()) fails on
\* entry.  Without assertions Loc is not tested before the first iteration;
\* nothing matches at the invalid location and the step back from it wraps
\* to the highest location, which is valid.  From there the walk comes down,
\* matching nothing above the buffer, and goes through the buffer from its
\* end, with the result r.
EnteredInvalid(r) == [r EXCEPT !.off = TRUE]

findTokenBackwards(b, Loc, Text) ==
  IF Loc = InvalidLoc THEN EnteredInvalid(findTokenBackwardsFrom(b, Len(b), Text))
  ELSE findTokenBackwardsFrom(b, Loc, Text)

(***************************************************************************)
(* Type shape                                                              *)
(***************************************************************************)
\* getInnerPointeeLoc: unwrap pointer and reference levels from the outermost
\* in; SigilLoc ends as the sigil of the last level unwrapped.
RECURSIVE getInnerPointeeLoc(_, _)
getInnerPointeeLoc(TL, SigilLoc) ==
  IF TL.levels # <<>>
    THEN getInnerPointeeLoc([TL EXCEPT !.levels = Tail(@)], Head(TL.levels))
  ELSE [TL |-> TL, SigilLoc |-> SigilLoc]

getRangeBeforeType(TL, StartLoc) == [b |-> StartLoc, e |-> TL.begin]

\* getRangeAfterType, P being the inner pointee and its sigil.
RangeAfterInner(b, P, EndLoc) ==
  [b |-> IF P.TL.isTS THEN P.TL.RAngleLoc + 1 ELSE getLocForEndOfToken(b, P.TL.begin),
   e |-> IF P.SigilLoc # InvalidLoc THEN P.SigilLoc - 1 ELSE EndLoc]

getRangeAfterType(b, TL, EndLoc) ==
  RangeAfterInner(b, getInnerPointeeLoc(TL, InvalidLoc), EndLoc)

\* if (LeftConstR.isValid()) return LeftConstR; return findToken(..., RHS, ...)
\* An assertion that fails in the first search comes first.
ValidOrElse(LeftConstR, RightConstR) ==
  IF LeftConstR.stuck \/ LeftConstR.b # InvalidLoc THEN LeftConstR
  ELSE IF LeftConstR.failed # 0 THEN [RightConstR EXCEPT !.failed = LeftConstR.failed]
  ELSE RightConstR

findQualifier(b, LHS, RHS, Qualifier) ==
  ValidOrElse(findToken(b, LHS, Qualifier), findToken(b, RHS, Qualifier))

\* getInnerTypeQualifiers(TL).hasConst()
getInnerTypeQualifiers(TL) == getInnerPointeeLoc(TL, InvalidLoc).TL.hasConst

(***************************************************************************)
(* checkQualifiers                                                         *)
(***************************************************************************)
\* FixItHint::CreateInsertion(Loc, Code)
CreateInsertion(Loc, Code) ==
  [op |-> "insert", at |-> Loc, text |-> Code, b |-> InvalidLoc, e |-> InvalidLoc]

\* FixItHint::CreateInsertionFromRange(Loc, CharSourceRange::getCharRange(R))
CreateInsertionFromRange(buf, Loc, R) ==
  [op |-> "insertFromRange", at |-> Loc, text |-> getAsString(buf, R.b, R.e),
   b |-> R.b, e |-> R.e]

\* FixItHint::CreateRemoval(SourceRange(B, E)): a token range, E being the
\* location at which its last token is looked up.
CreateRemoval(B, E) ==
  [op |-> "remove", at |-> InvalidLoc, text |-> <<>>, b |-> B, e |-> E]

\* InsertLocFor without the loop that advances over the whitespace after the
\* type.
InsertLocNoSkip(b, QA, R, RHS) ==
  IF QA = "QAS_Left" THEN R.b ELSE RHS.b

\* The switch on QualifierAlignment: the insert location.
InsertLocFor(b, QA, R, RHS) ==
  IF QA = "QAS_Left" THEN R.b ELSE SkipWhitespaceForward(b, RHS.b)

\* The early returns "Already on the left" / "Already on the right".
AlreadyPlaced(QA, ConstR, InsertLoc) ==
  IF QA = "QAS_Left" THEN (ConstR.b < InsertLoc) \/ (ConstR.b = InsertLoc)
  ELSE ~(ConstR.b < InsertLoc)

\* The fix-it hints streamed into the diagnostic, in order.
FixIts(b, QA, InsertLoc, ConstR) ==
  LET MustAddSpaceBefore == QA = "QAS_Right" /\ ~isWhitespace(CharAt(b, InsertLoc - 1))
      MustAddSpaceAfter == QA = "QAS_Left" /\ ~isWhitespace(CharAt(b, ConstR.e - 1))
  IN (IF MustAddSpaceBefore THEN <<CreateInsertion(InsertLoc, TxtSpace)>> ELSE <<>>)
       \o <<CreateInsertionFromRange(b, InsertLoc, ConstR)>>
       \o (IF MustAddSpaceAfter THEN <<CreateInsertion(InsertLoc, TxtSpace)>> ELSE <<>>)
       \o <<CreateRemoval(ConstR.b, ConstR.e - 1)>>

\* What one call of checkQualifiers did.  status is
\*   "unqualified": the innermost type is not const, nothing is done;
\*   "stuck":       the type is const and findQualifier did not return;
\*   "notfound":    the type is const but findQualifier returned an invalid
\*                  range (assert(ConstR.isValid()) fails);
\*   "placed":      the qualifier is where the alignment wants it;
\*   "finding":     "wrong order of qualifiers" is reported with the fix-its.
QualifierStatus(hasConst, QA, Found, ConstR, InsertLoc) ==
  IF ~hasConst THEN "unqualified"
  ELSE IF Found.stuck THEN "stuck"
  ELSE IF Found.b = InvalidLoc THEN "notfound"
  ELSE IF AlreadyPlaced(QA, ConstR, InsertLoc) THEN "placed"
  ELSE "finding"

\* The line of the first assertion that fails in one call of checkQualifiers
\* in a build with assertions (0: none): inside findQualifier, then
\* assert(ConstR.isValid()), then inside the skip after the qualifier.
FirstAssertion(hasConst, Found, Skip) ==
  IF ~hasConst THEN 0
  ELSE IF Found.failed # 0 THEN Found.failed
  ELSE IF Found.b = InvalidLoc THEN 335
  ELSE Skip.failed

\* checkQualifiers from the switch on: the qualifier was searched (Found),
\* its range extended over the whitespace and comments after it (ConstR).
checkPlacement(b, QA, R, LHS, RHS, Found, ConstR, InsertLoc, SigilLoc, status, failed) ==
  [status |-> status, failed |-> failed, R |-> R, LHS |-> LHS, RHS |-> RHS,
   Tok |-> IF status \in {"placed", "finding"} THEN [b |-> Found.b, e |-> Found.e] ELSE InvalidRange,
   ConstR |-> IF status \in {"placed", "finding"} THEN ConstR ELSE InvalidRange,
   InsertLoc |-> IF status \in {"unqualified", "stuck"} THEN InvalidLoc ELSE InsertLoc,
   SigilLoc |-> SigilLoc,
   edits |-> IF status = "finding" THEN FixIts(b, QA, InsertLoc, ConstR) ELSE <<>>]

checkFound(b, TL, QA, R, LHS, RHS, Found, ConstR, failed) ==
  checkPlacement(b, QA, R, LHS, RHS, Found, ConstR, InsertLocFor(b, QA, R, RHS),
                 getInnerPointeeLoc(TL, InvalidLoc).SigilLoc,
                 QualifierStatus(getInnerTypeQualifiers(TL), QA, Found, ConstR,
                                 InsertLocFor(b, QA, R, RHS)),
                 failed)

\* ConstR.setEnd(forwardSkipWhitespaceAndComments(SM, Context, ConstR.getEnd())),
\* Skip being what the skip gives.
checkSkipped(b, TL, QA, R, LHS, RHS, Found, Skip) ==
  checkFound(b, TL, QA, R, LHS, RHS, Found, [b |-> Found.b, e |-> Skip.loc],
             FirstAssertion(getInnerTypeQualifiers(TL), Found, Skip))

checkRanges(b, TL, QA, R, LHS, RHS, Found) ==
  checkSkipped(b, TL, QA, R, LHS, RHS, Found,
               forwardSkipWhitespaceAndComments(b, Found.e))

\* One call of checkQualifiers on the type TL of a context with source range R.
checkQualifiers(b, TL, R, QA) ==
  checkRanges(b, TL, QA, R, getRangeBeforeType(TL, R.b), getRangeAfterType(b, TL, R.e),
              findQualifier(b, getRangeBeforeType(TL, R.b), getRangeAfterType(b, TL, R.e),
                            KwConst))

(***************************************************************************)
(* check: the contexts of one match                                        *)
(***************************************************************************)
Context(decl, Arg, pre, r) ==
  [decl |-> decl, arg |-> Arg, pre |-> pre, status |-> r.status,
   failed |-> r.failed, R |-> r.R,
   LHS |-> r.LHS, RHS |-> r.RHS, Tok |-> r.Tok, ConstR |-> r.ConstR,
   InsertLoc |-> r.InsertLoc, SigilLoc |-> r.SigilLoc, edits |-> r.edits]

\* "var": the range from the declaration's start to the token before the name.
VarContexts(b, D, QA) ==
  <<Context("var", 0, FALSE,
            checkQualifiers(b, D.TL,
              [b |-> D.LocStart, e |-> GetBeginningOfToken(b, D.NameLoc - 1)], QA))>>

\* "function": the return type, up to the function's name.
FunctionContexts(b, D, QA) ==
  <<Context("function", 0, FALSE,
            checkQualifiers(b, D.TL, [b |-> D.LocStart, e |-> D.NameLoc], QA))>>

\* "typedef": TD->getSourceRange().
TypedefContexts(b, D, QA) ==
  <<Context("typedef", 0, FALSE,
            checkQualifiers(b, D.TL, [b |-> D.LocStart, e |-> D.NameLoc], QA))>>

\* The contexts of a handler whose first context is c and which, when the
\* call for c returned, went on through rest.
Then(c, rest) == IF c.status = "stuck" THEN <<c>> ELSE <<c>> \o rest

\* "template-spec-loc": the loop over the arguments but the last, then the
\* last one.  Arg counts from 0.  TemplateArgUpTo is the loop body once the
\* ',' was searched, with result SR.  When the search left the buffer (SR.off)
\* an assertion of findTokenBackwards, or assert(SR.isValid()), fails before
\* the call (the context's pre); without assertions EndLoc is the invalid
\* location, the call is made with it and the next StartLoc is one past it.
RECURSIVE TemplateArgContexts(_, _, _, _, _)
RECURSIVE TemplateArgUpTo(_, _, _, _, _, _)
TemplateArgUpTo(b, TSTL, Arg, StartLoc, QA, SR) ==
  Then(Context("template-arg", Arg, SR.off,
               checkQualifiers(b, TSTL.args[Arg + 1].TL,
                               [b |-> StartLoc, e |-> SR.b], QA)),
       TemplateArgContexts(b, TSTL, Arg + 1,
                           forwardSkipWhitespaceAndComments(b, SR.b + 1).loc, QA))

\* The last argument, up to the closing angle bracket.
LastArgContexts(b, TSTL, Arg, StartLoc, QA) ==
  IF ~TSTL.args[Arg + 1].isType THEN <<>>
  ELSE <<Context("template-arg", Arg, FALSE,
                 checkQualifiers(b, TSTL.args[Arg + 1].TL,
                                 [b |-> StartLoc, e |-> TSTL.RAngleLoc], QA))>>

TemplateArgContexts(b, TSTL, Arg, StartLoc, QA) ==
  IF Arg >= Len(TSTL.args) - 1 THEN LastArgContexts(b, TSTL, Arg, StartLoc, QA)
  ELSE IF ~TSTL.args[Arg + 1].isType
    THEN TemplateArgContexts(b, TSTL, Arg + 1, StartLoc, QA)
  ELSE TemplateArgUpTo(b, TSTL, Arg, StartLoc, QA,
                       findTokenBackwards(b, TSTL.args[Arg + 2].begin, TxtComma))

SpecializationContexts(b, TSTL, QA) ==
  IF ~TSTL.isTS \/ Len(TSTL.args) = 0 THEN <<>>
  ELSE TemplateArgContexts(b, TSTL, 0, TSTL.LAngleLoc + 1, QA)

TemplateSpecContexts(b, D, QA) ==
  SpecializationContexts(b, getInnerPointeeLoc(D.TL, InvalidLoc).TL, QA)

\* A node bound by a matcher: kind is the name it is bound to; n tells the
\* type locations of one declaration apart (the number of pointer and
\* reference levels above the specialization that the type location keeps).
Match(kind, n) == [kind |-> kind, n |-> n]

\* The matchers registerMatchers binds: the declaration, and every type
\* location whose inner pointee is a template specialization, that is the
\* specialization itself and each pointer or reference type location around
\* it.
Matches(D) ==
  IF ~D.ok THEN {}
  ELSE {Match(D.kind, 0)}
         \cup (IF getInnerPointeeLoc(D.TL, InvalidLoc).TL.isTS
                THEN {Match("template-spec-loc", n) : n \in 0..Len(D.TL.levels)}
                ELSE {})

(***************************************************************************)
(* Applying the fix-its of a run as one rewrite of the buffer              *)
(***************************************************************************)
\* The character range a removal covers: a token range ends where the token
\* lexed at its end location ends.
RemovedRange(b, ed) == [b |-> ed.b, e |-> ed.e + MeasureTokenLength(b, ed.e)]

IsInsert(ed) == ed.op \in {"insert", "insertFromRange"}

RECURSIVE InsertedAt(_, _)
InsertedAt(eds, i) ==
  IF eds = <<>> THEN <<>>
  ELSE (IF IsInsert(Head(eds)) /\ Head(eds).at = i THEN Head(eds).text ELSE <<>>)
         \o InsertedAt(Tail(eds), i)

Removed(b, eds, i) ==
  \E n \in 1..Len(eds) :
    /\ eds[n].op = "remove"
    /\ RemovedRange(b, eds[n]).b <= i
    /\ i < RemovedRange(b, eds[n]).e

RECURSIVE RewriteFrom(_, _, _)
RewriteFrom(b, eds, i) ==
  IF i > Len(b) THEN <<>>
  ELSE InsertedAt(eds, i)
         \o (IF i < Len(b) /\ ~Removed(b, eds, i) THEN <<b[i + 1]>> ELSE <<>>)
         \o RewriteFrom(b, eds, i + 1)

\* Every offset of the fix-its is relative to the buffer before the rewrite;
\* insertions at one offset are laid down in the order they were streamed.
ApplyFixIts(b, eds) == RewriteFrom(b, eds, 0)

(***************************************************************************)
(* Source buffers                                                          *)
(***************************************************************************)
\* The largest number of arguments of a template specialization.
MaxArgs == 2

RECURSIVE Join(_, _)
Join(parts, sep) ==
  IF parts = <<>> THEN <<>>
  ELSE IF Len(parts) = 1 THEN parts[1]
  ELSE parts[1] \o sep \o Join(Tail(parts), sep)

TxtTemplInt == <<"v", "<">> \o TxtInt \o <<">">>

\* What precedes the type name, and what follows it up to the declarator.
LeadOpts == {<<>>, KwConst \o TxtSpace, KwConst \o TxtCmtA, <<"C", " ">>}
MidOpts == {<<>>, TxtSpace \o KwConst, TxtCmtA \o KwConst, <<" ", "C">>}
\* The declarator: indirections and the declared name.
TailOpts == {<<" ", "x">>, TxtCmtA \o <<"x">>, <<"*", "x">>, <<" ", "*", "x">>,
             TxtCmtA \o <<"*", "x">>, <<" ", "*", " ">> \o KwConst \o <<" ", "x">>,
             <<"*", "*", "x">>, <<"&", "x">>}
ShapeOpts == {"var", "function", "typedef"}
TrailOpts == {<<>>, TxtCmtB}

\* One declaration of a variable, a function or a typedef, with at most one
\* qualifier on the innermost type.
DeclInputs ==
  {(IF k = "typedef" THEN KwTypedef \o TxtSpace ELSE <<>>) \o ql[1] \o ty \o ql[2] \o tl
     \o (IF k = "function" THEN <<"(", ")">> ELSE <<>>) \o <<";">> \o tr :
     k \in ShapeOpts,
     ql \in {q \in LeadOpts \X MidOpts : q[1] = <<>> \/ q[2] = <<>>},
     ty \in {TxtInt, TxtTemplInt}, tl \in TailOpts, tr \in TrailOpts}

\* The arguments of a specialization: types and the non-type argument `3`.
ArgOpts == {TxtInt, TxtInt \o TxtSpace \o KwConst, KwConst \o TxtSpace \o TxtInt,
            KwConst \o TxtSpace \o TxtInt \o <<"*">>, <<"3">>, TxtInt \o <<" ", "C">>}
SepOpts == {<<",">>, <<",", " ">>, <<" ", "M", " ">>}

\* What stands around the arguments: sp after the opening angle bracket, tl
\* between the closing one and the semicolon.
FrameOpts ==
  {[sp |-> <<>>, tl |-> <<" ", "x">>], [sp |-> TxtSpace, tl |-> <<" ", "x">>],
   [sp |-> <<>>, tl |-> <<"*", "x">>]}

\* A variable whose type is a specialization of up to MaxArgs arguments, or a
\* pointer to one.
TemplInputs ==
  UNION {{<<"v", "<">> \o fr.sp \o Join(as, sep) \o <<">">> \o fr.tl \o <<";">> :
            as \in [1..n -> ArgOpts], sep \in SepOpts, fr \in FrameOpts} :
         n \in 1..MaxArgs}

Inputs == DeclInputs \cup TemplInputs

\* The values the option QualifierAlignment is configured with.
Options == {"None", "Left", "Right"}

(***************************************************************************)
(* The check as a state machine                                            *)
(***************************************************************************)
VARIABLES
  src,                 \* the source buffer
  decl,                \* the declaration the front end parsed from src
  orig,                \* the buffer the first run analysed
  option,              \* the configured QualifierAlignment
  QualifierAlignment,  \* the check's member, set by its constructor
  pc,                  \* "new", "match", "done", or how the run ended early:
                       \* "aborted", "offstart", "hung", "rejected"
  pending,             \* the matches the finder still has to deliver
  round,               \* 1: the first run; 2: the run on the rewritten buffer
  log,                 \* the contexts checked, with what each one reported
  build                \* "asserts" or "ndebug": how the check was compiled;
                       \* "any" while no assertion has failed (both builds
                       \* behave alike up to there)

vars == <<src, decl, orig, option, QualifierAlignment, pc, pending, round, log,
          build>>

Init ==
  /\ src \in Inputs
  /\ decl = NoDecl
  /\ orig = src
  /\ option \in Options
  /\ QualifierAlignment = "unset"
  /\ pc = "new"
  /\ pending = {}
  /\ round = 1
  /\ log = <<>>
  /\ build = "any"

\* QualifiersOrder::QualifiersOrder, then the finder collects the matches.
Construct ==
  /\ pc = "new"
  /\ QualifierAlignment' = IF option = "Right" THEN "QAS_Right" ELSE "QAS_Left"
  /\ pc' = "match"
  /\ decl' = ParseDecl(src)
  /\ pending' = Matches(decl')
  /\ UNCHANGED <<src, orig, option, round, log, build>>

\* An assertion fails at the context c: before the call of checkQualifiers
\* (the backward search left the buffer) or inside it.
AssertFails(c) == c.pre \/ c.failed # 0

\* The call of checkQualifiers for c in a build with assertions: it ends at
\* the assertion that fails, inside findQualifier or after it.
WithAsserts(c) ==
  IF c.failed \notin {96, 107} THEN c
  ELSE [c EXCEPT !.status = "stuck", !.Tok = InvalidRange, !.ConstR = InvalidRange,
                 !.InsertLoc = InvalidLoc, !.edits = <<>>]

AssertFailsIn(cs) == \E n \in 1..Len(cs) : AssertFails(cs[n])

FirstFailure(cs) == CHOOSE n \in 1..Len(cs) :
  AssertFails(cs[n]) /\ \A m \in 1..(n - 1) : ~AssertFails(cs[m])

\* The contexts a build with assertions goes through before it aborts: the
\* one of the failure too when the assertion is inside checkQualifiers.
UpToFailure(cs, n) ==
  IF cs[n].pre THEN SubSeq(cs, 1, n - 1)
  ELSE Append(SubSeq(cs, 1, n - 1), WithAsserts(cs[n]))

\* What a context whose qualifier was not found reports when the assertions
\* are compiled out: the comparisons run on the invalid range.
WithoutAsserts(b, QA, c) ==
  IF c.status # "notfound" \/ AlreadyPlaced(QA, InvalidRange, c.InsertLoc) THEN c
  ELSE [c EXCEPT !.status = "corrupt",
                 !.edits = FixIts(b, QA, c.InsertLoc, InvalidRange)]

Logged(cs, r) == [n \in 1..Len(cs) |-> [round |-> r, c |-> cs[n]]]

\* Where a run of check() through the contexts cs leaves the process in a
\* build with assertions that fail ("offstart": in the backward search;
\* "aborted": in checkQualifiers) and in a build without assertions ("hung":
\* findToken does not return).
AfterFailure(c) == IF c.pre THEN "offstart" ELSE "aborted"

AfterRun(cs) ==
  IF cs # <<>> /\ cs[Len(cs)].status = "stuck" THEN "hung" ELSE "match"

\* The effect of one run of check() for the match m, cs being the contexts it
\* goes through when no assertion stops it.
Deliver(m, cs) ==
  \E bld \in (IF ~AssertFailsIn(cs) THEN {build}
               ELSE IF build = "any" THEN {"asserts", "ndebug"} ELSE {build}) :
    /\ build' = bld
    /\ pc' = IF bld = "asserts" THEN AfterFailure(cs[FirstFailure(cs)])
             ELSE AfterRun(cs)
    /\ log' = log \o Logged(
                IF bld = "asserts"
                  THEN UpToFailure(cs, FirstFailure(cs))
                ELSE [n \in 1..Len(cs) |-> WithoutAsserts(src, QualifierAlignment, cs[n])],
                round)
    /\ pending' = pending \ {m}
    /\ UNCHANGED <<src, decl, orig, option, QualifierAlignment, round>>

CheckVar ==
  /\ pc = "match"
  /\ Match("var", 0) \in pending
  /\ Deliver(Match("var", 0), VarContexts(src, decl, QualifierAlignment))

CheckFunction ==
  /\ pc = "match"
  /\ Match("function", 0) \in pending
  /\ Deliver(Match("function", 0), FunctionContexts(src, decl, QualifierAlignment))

CheckTypedef ==
  /\ pc = "match"
  /\ Match("typedef", 0) \in pending
  /\ Deliver(Match("typedef", 0), TypedefContexts(src, decl, QualifierAlignment))

CheckTemplateSpec ==
  /\ pc = "match"
  /\ \E m \in pending :
       /\ m.kind = "template-spec-loc"
       /\ Deliver(m, TemplateSpecContexts(src, decl, QualifierAlignment))

\* The fix-its of the diagnostics in l; a diagnostic that repeats an earlier
\* one (the template handler ran on several type locations of one
\* specialization) counts once.
RECURSIVE LoggedEdits(_, _)
LoggedEdits(l, n) ==
  IF n = 0 THEN <<>>
  ELSE LoggedEdits(l, n - 1)
         \o (IF \E m \in 1..(n - 1) : l[m] = l[n] THEN <<>> ELSE l[n].c.edits)

CanApply ==
  /\ pc = "match"
  /\ pending = {}
  /\ round = 1
  /\ \E n \in 1..Len(log) : log[n].c.status = "finding"
  /\ \A n \in 1..Len(log) : log[n].c.status # "corrupt"

\* The fix-its of the first run are applied as one rewrite, and the rewritten
\* buffer is analysed again when it still holds a declaration.
ApplyFixes ==
  /\ CanApply
  /\ src' = ApplyFixIts(src, LoggedEdits(log, Len(log)))
  /\ decl' = ParseDecl(src')
  /\ pc' = IF decl'.ok THEN "match" ELSE "rejected"
  /\ pending' = Matches(decl')
  /\ round' = 2
  /\ UNCHANGED <<orig, option, QualifierAlignment, log, build>>

Finish ==
  /\ pc = "match"
  /\ pending = {}
  /\ ~CanApply
  /\ pc' = "done"
  /\ UNCHANGED <<src, decl, orig, option, QualifierAlignment, pending, round, log,
                 build>>

Next ==
  \/ Construct
  \/ CheckVar
  \/ CheckFunction
  \/ CheckTypedef
  \/ CheckTemplateSpec
  \/ ApplyFixes
  \/ Finish

Spec == Init /\ [][Next]_vars

(***************************************************************************)
(* Properties                                                              *)
(***************************************************************************)
\* The buffer the run of round r analysed.
BufferOf(r) == IF r = 1 THEN orig ELSE src

Entries == {log[n] : n \in 1..Len(log)}

Located(c) == c.status \in {"placed", "finding"}

Reported(c) == c.status \in {"finding", "corrupt"}

\* The raw tokens of a buffer, comments included, as texts.
RECURSIVE RawTexts(_, _)
RawTexts(b, p) ==
  LET s == SkipWhitespaceForward(b, p)
      n == MeasureTokenLength(b, s)
  IN IF n = 0 THEN <<>> ELSE <<getAsString(b, s, s + n)>> \o RawTexts(b, s + n)

IsCommentText(t) == Len(t) >= 2 /\ t[1] = "/" /\ t[2] \in {"*", "/"}

Moved(t) == t = KwConst \/ IsCommentText(t)

Count(ts, t) == Cardinality({n \in 1..Len(ts) : ts[n] = t})

\* The specialization the first run's template handler walked.
OrigSpecialization == getInnerPointeeLoc(ParseDecl(orig).TL, InvalidLoc).TL

\* The contexts the template handler of the first run went through.
ArgContexts == SelectSeq(log, LAMBDA x : x.round = 1 /\ x.c.decl = "template-arg")

\* The template handler of the first run has been delivered.
ArgsWalked ==
  /\ ParseDecl(orig).ok
  /\ OrigSpecialization.isTS
  /\ round = 2 \/ (pc # "new" /\ \A m \in pending : m.kind # "template-spec-loc")

CharsIn(b, B, E) == {b[i + 1] : i \in {j \in B..(E - 1) : j >= 0 /\ j < Len(b)}}

\* C1: under the configured policy None no context reports a finding and no
\* context carries an edit.
C1_NoneReportsNothing ==
  option = "None" => \A e \in Entries : ~Reported(e.c) /\ e.c.edits = <<>>

\* C2: the run on the rewritten buffer reports no finding, and a context of
\* the first run whose qualifier is already at the canonical position (Left:
\* at the start of the context; Right: not before the end of the type)
\* reports none either.
C2_Idempotent ==
  \A e \in Entries :
    /\ e.round = 2 => ~Reported(e.c)
    /\ (/\ Located(e.c)
        /\ IF QualifierAlignment = "QAS_Left" THEN e.c.Tok.b = e.c.R.b
           ELSE e.c.Tok.b >= e.c.RHS.b)
         => e.c.status = "placed"

\* C3: a specialization with N type arguments gives N argument contexts, from
\* left to right, whose spans do not overlap and hold no comma, and only an
\* argument whose own innermost type is const reports a finding.
C3_ArgumentIndependence ==
  ArgsWalked =>
    /\ Len(ArgContexts) = Cardinality({j \in 1..Len(OrigSpecialization.args) :
                                         OrigSpecialization.args[j].isType})
    /\ \A i, j \in 1..Len(ArgContexts) :
         i < j => /\ ArgContexts[i].c.arg < ArgContexts[j].c.arg
                  /\ ArgContexts[i].c.R.e <= ArgContexts[j].c.R.b
    /\ \A i \in 1..Len(ArgContexts) :
         /\ "," \notin CharsIn(orig, ArgContexts[i].c.R.b, ArgContexts[i].c.R.e)
         /\ Reported(ArgContexts[i].c)
              => OrigSpecialization.args[ArgContexts[i].c.arg + 1].TL.hasConst

\* C4: with indirections around a const innermost type, the located qualifier
\* and the region searched after the type lie before the leftmost sigil, no
\* edit inserts after that sigil, and no removal covers it.
C4_SigilUntouched ==
  \A e \in Entries :
    (e.c.status = "finding" /\ e.c.SigilLoc # InvalidLoc) =>
      /\ e.c.Tok.b < e.c.SigilLoc
      /\ e.c.RHS.e < e.c.SigilLoc
      /\ \A n \in 1..Len(e.c.edits) :
           IF IsInsert(e.c.edits[n]) THEN e.c.edits[n].at <= e.c.SigilLoc
           ELSE ~(/\ RemovedRange(BufferOf(e.round), e.c.edits[n]).b <= e.c.SigilLoc
                  /\ e.c.SigilLoc < RemovedRange(BufferOf(e.round), e.c.edits[n]).e)

\* C5: the located span runs over the whitespace and comments after the
\* keyword, the inserted text is the text of that span and the removed range
\* is that span; in the rewritten buffer `const` and every comment occur as
\* often as before and the other tokens are the same, in the same order.
C5_SpanMovedWhole ==
  /\ \A e \in Entries :
       e.c.status = "finding" =>
         /\ e.c.ConstR.b = e.c.Tok.b
         /\ e.c.ConstR.e
              = forwardSkipWhitespaceAndComments(BufferOf(e.round), e.c.Tok.e).loc
         /\ \A n \in 1..Len(e.c.edits) :
              /\ e.c.edits[n].op = "insertFromRange" =>
                   e.c.edits[n].text
                     = getAsString(BufferOf(e.round), e.c.ConstR.b, e.c.ConstR.e)
              /\ e.c.edits[n].op = "remove" =>
                   RemovedRange(BufferOf(e.round), e.c.edits[n]) = e.c.ConstR
  /\ round = 2 =>
       /\ \A t \in {RawTexts(orig, 0)[n] : n \in 1..Len(RawTexts(orig, 0))} :
            Moved(t) => Count(RawTexts(src, 0), t) = Count(RawTexts(orig, 0), t)
       /\ SelectSeq(RawTexts(src, 0), LAMBDA t : ~Moved(t))
            = SelectSeq(RawTexts(orig, 0), LAMBDA t : ~Moved(t))

\* C6: a context whose innermost type is const but whose qualifier was not
\* found reports nothing and carries no edit, and the run goes on.
C6_NotFoundSuppressed ==
  /\ pc # "aborted"
  /\ \A e \in Entries :
       (e.c.status # "unqualified" /\ e.c.Tok = InvalidRange) =>
         e.c.status = "notfound" /\ e.c.edits = <<>>

\* C7: the span of a type argument starts after every non-type argument that
\* precedes it, and no edit is placed at or before such an argument.
C7_NonTypeArgsConsumed ==
  \A i \in 1..Len(ArgContexts) :
    \A j \in 1..ArgContexts[i].c.arg :
      ~OrigSpecialization.args[j].isType =>
        /\ OrigSpecialization.args[j].begin < ArgContexts[i].c.R.b
        /\ \A n \in 1..Len(ArgContexts[i].c.edits) :
             IsInsert(ArgContexts[i].c.edits[n])
               => OrigSpecialization.args[j].begin < ArgContexts[i].c.edits[n].at

\* C8: a context whose qualifier was located reports a finding under
\* QAS_Left exactly when the qualifier starts after the span's start, which is
\* the insert location, and under QAS_Right exactly when it starts before the
\* start of the region after the type advanced over whitespace, which is the
\* insert location; a context without a finding carries no edit.
C8_PlacementRule ==
  \A e \in Entries :
    /\ Located(e.c) =>
         /\ QualifierAlignment \in {"QAS_Left", "QAS_Right"}
         /\ QualifierAlignment = "QAS_Left" =>
              /\ e.c.InsertLoc = e.c.R.b
              /\ e.c.status = "finding" <=> e.c.Tok.b > e.c.R.b
         /\ QualifierAlignment = "QAS_Right" =>
              /\ e.c.InsertLoc = SkipWhitespaceForward(BufferOf(e.round), e.c.RHS.b)
              /\ e.c.status = "finding"
                   <=> e.c.Tok.b < SkipWhitespaceForward(BufferOf(e.round), e.c.RHS.b)
    /\ e.c.status = "finding" <=> (Located(e.c) /\ e.c.edits # <<>>)

\* C8 witness: under QAS_Right one context moved its qualifier over
\* whitespace after the type and another one found it in place.
C8_Witness ==
  /\ QualifierAlignment = "QAS_Right"
  /\ \E e \in Entries :
       /\ e.c.status = "finding"
       /\ e.c.InsertLoc > e.c.RHS.b
  /\ \E e \in Entries : e.c.status = "placed"

\* C9: in a plan the insert location is outside the removed range, no two
\* insertions are at one offset, and the edits give the same text in every
\* order.
C9_OrderIndependent ==
  \A e \in Entries :
    e.c.status = "finding" =>
      /\ \A n \in 1..Len(e.c.edits) :
           e.c.edits[n].op = "remove" =>
             ~(/\ RemovedRange(BufferOf(e.round), e.c.edits[n]).b <= e.c.InsertLoc
               /\ e.c.InsertLoc < RemovedRange(BufferOf(e.round), e.c.edits[n]).e)
      /\ \A m, n \in 1..Len(e.c.edits) :
           (m < n /\ IsInsert(e.c.edits[m]) /\ IsInsert(e.c.edits[n]))
             => e.c.edits[m].at # e.c.edits[n].at
      /\ \A f \in Permutations(1..Len(e.c.edits)) :
           ApplyFixIts(BufferOf(e.round), [n \in 1..Len(e.c.edits) |-> e.c.edits[f[n]]])
             = ApplyFixIts(BufferOf(e.round), e.c.edits)

\* C10: the backward search never steps before the first byte of the buffer
\* and no context is checked with a range it left invalid, every search
\* returns, the located token starts inside the range it was searched in, and
\* the span extended over whitespace and comments ends inside the buffer.
C10_SearchBounded ==
  /\ pc \notin {"offstart", "hung"}
  /\ \A e \in Entries : ~e.c.pre
  /\ \A e \in Entries :
       Located(e.c) =>
         /\ \/ e.c.LHS.b <= e.c.Tok.b /\ e.c.Tok.b < e.c.LHS.e
            \/ e.c.RHS.b <= e.c.Tok.b /\ e.c.Tok.b < e.c.RHS.e
         /\ e.c.ConstR.e <= Len(BufferOf(e.round))

====
